---- MODULE Spec2Model ----
(***************************************************************************)
(* A model of Interpreter.py: the Lexer, the recursive-descent Parser, the *)
(* tree-walking Interpreter and run_program, which chains the three.       *)
(*                                                                         *)
(* A Python str is modelled as a sequence of one-character strings, so     *)
(* that slicing, scanning and comparison are computed, not assumed.  The   *)
(* Lexer's cursor keeps Python's 0-based value: the character at cursor p  *)
(* is text[p + 1].  A Token is the record [ttype, value]; an AST node is   *)
(* the tuple the Parser builds (<<"lit", 5>>, <<"var", name>>,             *)
(* <<"-", operand>>, <<"*", left, right>>).                                *)
(***************************************************************************)
EXTENDS Integers, Sequences, FiniteSets, TLC

VARIABLES text, pos, tokens, ppos, assignments, vars, runIdx, keys, stdout, pc, err

allvars == <<text, pos, tokens, ppos, assignments, vars, runIdx, keys, stdout, pc, err>>

(***************************************************************************)
(* Bounds of the model.                                                    *)
(***************************************************************************)
\* Longest text drawn from the whole alphabet.
MaxLen == 3
\* Most operators in a generated expression.
MaxOps == 2
\* Most operators in a generated chain of one grammar level.
MaxChain == 2
\* Most sign tokens in a generated run of unary signs.
MaxSigns == 3
\* Most statements in a generated program.
MaxStmts == 3
\* Longest token sequence handed directly to the Parser.
MaxToks == 4

(***************************************************************************)
(* Characters.  str.isspace, str.isalpha, str.isdigit and str.isalnum are  *)
(* Unicode predicates; they are modelled on the ASCII characters below and *)
(* on two characters beyond ASCII that str.isdigit accepts: ARABIC-INDIC   *)
(* DIGIT ZERO, a decimal digit of value 0, and SUPERSCRIPT TWO, a digit    *)
(* that is no decimal digit, so that int() rejects it.                     *)
(***************************************************************************)
None == "None"

ArabicZero == "U+0660"
SuperscriptTwo == "U+00B2"

SpaceChars == {" ", "\n"}
LetterChars == {"a", "b", "x", "y", "z", "B"}
AsciiDigits == {"0", "1", "2", "3", "4", "5", "6", "7", "8", "9"}
DigitChars == AsciiDigits \cup {ArabicZero, SuperscriptTwo}
\* str.isdecimal: the digits int() reads.
DecimalChars == AsciiDigits \cup {ArabicZero}
SingleChars == {"+", "-", "*", "(", ")", "=", ";"}

isspace(c) == c \in SpaceChars
isalpha(c) == c \in LetterChars
isdigit(c) == c \in DigitChars
isalnum(c) == isalpha(c) \/ isdigit(c)

\* ord(c) for the characters an identifier can hold (Python compares str by
\* code point).
Ord(c) ==
    CASE c = "0" -> 48 [] c = "1" -> 49 [] c = "2" -> 50 [] c = "3" -> 51
      [] c = "4" -> 52 [] c = "5" -> 53 [] c = "6" -> 54 [] c = "7" -> 55
      [] c = "8" -> 56 [] c = "9" -> 57 [] c = "B" -> 66 [] c = "_" -> 95
      [] c = "a" -> 97 [] c = "b" -> 98 [] c = "x" -> 120 [] c = "y" -> 121
      [] c = "z" -> 122 [] c = SuperscriptTwo -> 178 [] c = ArabicZero -> 1632

(***************************************************************************)
(* Lexer                                                                   *)
(***************************************************************************)
Token(ttype, value) == [ttype |-> ttype, value |-> value]

\* Lexer.peek
LexPeek(t, p) == IF p < Len(t) THEN t[p + 1] ELSE None

\* Lexer.skip_whitespace: the cursor after the loop.
RECURSIVE skip_whitespace(_, _)
skip_whitespace(t, p) ==
    IF LexPeek(t, p) # None /\ isspace(LexPeek(t, p))
    THEN skip_whitespace(t, p + 1)
    ELSE p

\* The identifier loop of next_token: the cursor after the maximal run.
RECURSIVE ScanIdent(_, _)
ScanIdent(t, p) ==
    IF LexPeek(t, p) # None /\ (isalnum(LexPeek(t, p)) \/ LexPeek(t, p) = "_")
    THEN ScanIdent(t, p + 1)
    ELSE p

\* The digit loop of next_token.
RECURSIVE ScanDigits(_, _)
ScanDigits(t, p) ==
    IF LexPeek(t, p) # None /\ isdigit(LexPeek(t, p))
    THEN ScanDigits(t, p + 1)
    ELSE p

\* text[a:b]
Slice(t, a, b) == SubSeq(t, a + 1, b)

LexOk(tok, p) == [err |-> "", tok |-> tok, pos |-> p]
LexFail(p) == [err |-> "Lexical error", tok |-> Token("", <<>>), pos |-> p]

\* SingleToken with the text payload left empty.
SingleTokenNoText(c) == Token(c, <<>>)

\* The token a single-character lexeme yields.
SingleToken(c) == Token(c, <<c>>)

\* next_token without the leading-zero check: any run of digits is a literal.
next_tokenAnyDigits(t, p0) ==
    LET p == skip_whitespace(t, p0)
        c == LexPeek(t, p)
    IN  IF c = None THEN LexOk(Token("EOF", <<>>), p)
        ELSE IF c \in SingleChars THEN LexOk(SingleToken(c), p + 1)
        ELSE IF isalpha(c) \/ c = "_"
             THEN LET e == ScanIdent(t, p)
                  IN  LexOk(Token("IDENTIFIER", Slice(t, p, e)), e)
        ELSE IF isdigit(c)
             THEN LET e == ScanDigits(t, p + 1)
                  IN  LexOk(Token("LITERAL", Slice(t, p, e)), e)
        ELSE LexFail(p)

\* Lexer.next_token from cursor p0: the token (or the error) and the cursor
\* it leaves.
next_token(t, p0) ==
    LET p == skip_whitespace(t, p0)
        c == LexPeek(t, p)
    IN  IF c = None THEN LexOk(Token("EOF", <<>>), p)
        ELSE IF c \in SingleChars THEN LexOk(SingleToken(c), p + 1)
        ELSE IF isalpha(c) \/ c = "_"
             THEN LET e == ScanIdent(t, p)
                  IN  LexOk(Token("IDENTIFIER", Slice(t, p, e)), e)
        ELSE IF isdigit(c)
             THEN IF c # "0"
                  THEN LET e == ScanDigits(t, p + 1)
                       IN  LexOk(Token("LITERAL", Slice(t, p, e)), e)
                  ELSE IF LexPeek(t, p + 1) # None /\ isdigit(LexPeek(t, p + 1))
                       THEN LexFail(p + 1)
                       ELSE LexOk(Token("LITERAL", Slice(t, p, p + 1)), p + 1)
        ELSE LexFail(p)

(***************************************************************************)
(* Parser                                                                  *)
(***************************************************************************)
\* The digit a decimal character stands for, and int(value) of a token's
\* text; int() raises ValueError on a text that is not all decimal digits.
DigitVal(c) == IF c = ArabicZero THEN 0 ELSE Ord(c) - 48

IsDecimal(s) == Len(s) >= 1 /\ \A i \in 1..Len(s) : s[i] \in DecimalChars

RECURSIVE StrToInt(_)
StrToInt(s) ==
    IF Len(s) = 0 THEN 0
    ELSE 10 * StrToInt(SubSeq(s, 1, Len(s) - 1)) + DigitVal(s[Len(s)])

\* Python's None where a Token is expected.
NoToken == Token(None, <<>>)

\* Parser.peek
ParsePeek(toks, p) == IF p < Len(toks) THEN toks[p + 1] ELSE NoToken

POk(node, p) == [err |-> "", node |-> node, pos |-> p]
PFail(e, p) == [err |-> e, node |-> <<>>, pos |-> p]

\* Parser.consume(ttype); ttype = None consumes whatever token is there.
\* The consumed token is returned in the node field.
consume(toks, p, ttype) ==
    LET token == ParsePeek(toks, p)
    IN  IF token = NoToken THEN PFail("Syntax error", p)
        ELSE IF ttype # None /\ token.ttype # ttype THEN PFail("Syntax error", p)
        ELSE POk(token, p + 1)

\* The operator an AST node carries when it is taken from a token's text.
OpOf(value) == value[1]

RECURSIVE exp(_, _), ExpLoop(_, _, _), term(_, _), TermLoop(_, _, _), fact(_, _)
RECURSIVE TermLoopAllOps(_, _, _)

\* fact whose sign alternatives take a literal, a name or a parenthesis, not
\* another signed factor.
factOneSign(toks, p) ==
    LET token == ParsePeek(toks, p)
        signed == token # NoToken /\ token.ttype \in {"+", "-"}
        q == IF signed THEN p + 1 ELSE p
        prim == ParsePeek(toks, q)
        wrap(n) == IF signed THEN <<token.ttype, n>> ELSE n
    IN  IF prim = NoToken THEN PFail("AttributeError", q)
        ELSE IF prim.ttype = "("
             THEN LET e == exp(toks, q + 1)
                  IN  IF e.err # "" THEN e
                      ELSE LET c == consume(toks, e.pos, ")")
                           IN  IF c.err # "" THEN c ELSE POk(wrap(e.node), c.pos)
        ELSE IF prim.ttype = "LITERAL"
             THEN IF IsDecimal(prim.value)
                  THEN POk(wrap(<<"lit", StrToInt(prim.value)>>), q + 1)
                  ELSE PFail("ValueError", q + 1)
        ELSE IF prim.ttype = "IDENTIFIER"
             THEN POk(wrap(<<"var", prim.value>>), q + 1)
        ELSE PFail("Syntax error", q)

\* Parser.fact.  token.ttype on None raises AttributeError.
fact(toks, p) ==
    LET token == ParsePeek(toks, p)
    IN  IF token = NoToken THEN PFail("AttributeError", p)
        ELSE IF token.ttype = "("
             THEN LET e == exp(toks, p + 1)
                  IN  IF e.err # "" THEN e
                      ELSE LET c == consume(toks, e.pos, ")")
                           IN  IF c.err # "" THEN c ELSE POk(e.node, c.pos)
        ELSE IF token.ttype = "+"
             THEN LET f == fact(toks, p + 1)
                  IN  IF f.err # "" THEN f ELSE POk(<<"+", f.node>>, f.pos)
        ELSE IF token.ttype = "-"
             THEN LET f == fact(toks, p + 1)
                  IN  IF f.err # "" THEN f ELSE POk(<<"-", f.node>>, f.pos)
        ELSE IF token.ttype = "LITERAL"
             THEN IF IsDecimal(token.value)
                  THEN POk(<<"lit", StrToInt(token.value)>>, p + 1)
                  ELSE PFail("ValueError", p + 1)
        ELSE IF token.ttype = "IDENTIFIER"
             THEN POk(<<"var", token.value>>, p + 1)
        ELSE PFail("Syntax error", p)

\* The loop of term folding + and - as well as *: no layer for precedence.
TermLoopAllOps(toks, node, p) ==
    LET token == ParsePeek(toks, p)
    IN  IF token # NoToken /\ token.ttype \in {"*", "+", "-"}
        THEN LET right == fact(toks, p + 1)
             IN  IF right.err # "" THEN right
                 ELSE TermLoopAllOps(toks, <<token.ttype, node, right.node>>, right.pos)
        ELSE POk(node, p)

\* The loop of Parser.term, with the node folded so far.
TermLoop(toks, node, p) ==
    LET token == ParsePeek(toks, p)
    IN  IF token # NoToken /\ token.ttype = "*"
        THEN LET right == fact(toks, p + 1)
             IN  IF right.err # "" THEN right
                 ELSE TermLoop(toks, <<"*", node, right.node>>, right.pos)
        ELSE POk(node, p)

\* Parser.term
term(toks, p) ==
    LET f == fact(toks, p)
    IN  IF f.err # "" THEN f ELSE TermLoop(toks, f.node, f.pos)

\* The loop of exp recursing into exp for its right operand: a right fold.
ExpLoopRight(toks, node, p) ==
    LET token == ParsePeek(toks, p)
    IN  IF token # NoToken /\ token.ttype \in {"+", "-"}
        THEN LET op == OpOf(consume(toks, p, None).node.value)
                 right == exp(toks, p + 1)
             IN  IF right.err # "" THEN right
                 ELSE POk(<<op, node, right.node>>, right.pos)
        ELSE POk(node, p)

\* The loop of Parser.exp, with the node folded so far.
ExpLoop(toks, node, p) ==
    LET token == ParsePeek(toks, p)
    IN  IF token # NoToken /\ token.ttype \in {"+", "-"}
        THEN LET op == OpOf(consume(toks, p, None).node.value)
                 right == term(toks, p + 1)
             IN  IF right.err # "" THEN right
                 ELSE ExpLoop(toks, <<op, node, right.node>>, right.pos)
        ELSE POk(node, p)

\* Parser.exp
exp(toks, p) ==
    LET t == term(toks, p)
    IN  IF t.err # "" THEN t ELSE ExpLoop(toks, t.node, t.pos)

\* Parser.assignment
assignment(toks, p) ==
    LET lhs == consume(toks, p, "IDENTIFIER")
    IN  IF lhs.err # "" THEN lhs
        ELSE LET eq == consume(toks, lhs.pos, "=")
             IN  IF eq.err # "" THEN eq
                 ELSE LET e == exp(toks, eq.pos)
                      IN  IF e.err # "" THEN e
                          ELSE LET semi == consume(toks, e.pos, ";")
                               IN  IF semi.err # "" THEN semi
                                   ELSE POk(<<"assign", lhs.node.value, e.node>>,
                                            semi.pos)

(***************************************************************************)
(* Interpreter                                                             *)
(***************************************************************************)
EOk(v) == [err |-> "", val |-> v]
EFail(e) == [err |-> e, val |-> 0]

RECURSIVE eval_exp(_, _)

\* eval_exp reading an unbound name as 0.
eval_expDefaultZero(node, env) ==
    IF node[1] = "var" /\ node[2] \notin DOMAIN env
    THEN EOk(0)
    ELSE IF node[1] \in {"lit", "var"} THEN EOk(IF node[1] = "lit" THEN node[2] ELSE env[node[2]])
    ELSE IF Len(node) = 2
         THEN LET v == eval_exp(node[2], env)
              IN  IF node[1] = "+" THEN EOk(v.val) ELSE EOk(-v.val)
    ELSE LET left == eval_exp(node[2], env)
             right == eval_exp(node[3], env)
         IN  IF node[1] = "+" THEN EOk(left.val + right.val)
             ELSE IF node[1] = "-" THEN EOk(left.val - right.val)
             ELSE EOk(left.val * right.val)

\* Interpreter.eval_exp against the environment env (self.vars).
eval_exp(node, env) ==
    LET nodetype == node[1]
    IN  IF nodetype = "lit" THEN EOk(node[2])
        ELSE IF nodetype = "var"
             THEN IF node[2] \notin DOMAIN env
                  THEN EFail("Uninitialized variable")
                  ELSE EOk(env[node[2]])
        ELSE IF nodetype \in {"+", "-"} /\ Len(node) = 2
             THEN LET v == eval_exp(node[2], env)
                  IN  IF v.err # "" THEN v
                      ELSE IF nodetype = "+" THEN EOk(v.val) ELSE EOk(-v.val)
        ELSE IF nodetype \in {"+", "-", "*"} /\ Len(node) = 3
             THEN LET left == eval_exp(node[2], env)
                  IN  IF left.err # "" THEN left
                      ELSE LET right == eval_exp(node[3], env)
                           IN  IF right.err # "" THEN right
                               ELSE IF nodetype = "+" THEN EOk(left.val + right.val)
                               ELSE IF nodetype = "-" THEN EOk(left.val - right.val)
                               ELSE EOk(left.val * right.val)
        ELSE EFail("Unknown node structure")

\* self.vars[varname] = value
Bind(env, name, value) ==
    [n \in DOMAIN env \cup {name} |-> IF n = name THEN value ELSE env[n]]

\* a < b on Python strs: lexicographic by code point, a proper prefix first.
RECURSIVE StrLess(_, _)
StrLess(a, b) ==
    IF Len(b) = 0 THEN FALSE
    ELSE IF Len(a) = 0 THEN TRUE
    ELSE IF a[1] # b[1] THEN Ord(a[1]) < Ord(b[1])
    ELSE StrLess(Tail(a), Tail(b))

RECURSIVE sorted(_), sortedDescending(_)

\* The names in descending order.
sortedDescending(S) ==
    IF S = {} THEN <<>>
    ELSE LET m == CHOOSE x \in S : \A y \in S \ {x} : StrLess(y, x)
         IN  <<m>> \o sortedDescending(S \ {m})

\* sorted(S) for a set of strs.
sorted(S) ==
    IF S = {} THEN <<>>
    ELSE LET m == CHOOSE x \in S : \A y \in S \ {x} : StrLess(x, y)
         IN  <<m>> \o sorted(S \ {m})

\* str(n) for an int.
DigitChar(d) == <<"0", "1", "2", "3", "4", "5", "6", "7", "8", "9">>[d + 1]

RECURSIVE NatToStr(_)
NatToStr(n) ==
    IF n < 10 THEN <<DigitChar(n)>>
    ELSE Append(NatToStr(n \div 10), DigitChar(n % 10))

IntToStr(n) == IF n < 0 THEN <<"-">> \o NatToStr(-n) ELSE NatToStr(n)

\* f"{var} = {value}"
FormatLine(var, value) == var \o <<" ", "=", " ">> \o IntToStr(value)

(***************************************************************************)
(* Input texts                                                             *)
(***************************************************************************)
Alphabet ==
    {" ", "+", "-", "*", "(", ")", "=", ";", "a", "_", "0", "1", "@",
     ArabicZero, SuperscriptTwo}

RECURSIVE SeqsUpTo(_, _)
SeqsUpTo(S, n) ==
    IF n = 0 THEN {<<>>}
    ELSE LET shorter == SeqsUpTo(S, n - 1)
         IN  shorter \cup {Append(s, c) : s \in shorter, c \in S}

ShortTexts == SeqsUpTo(Alphabet, MaxLen)

\* Chains of one grammar level: x=o1 op1 o2 op2 ... ;
ChainOperands == {"5", "2", "1"}

RECURSIVE ChainTails(_)
ChainTails(n) ==
    IF n = 0 THEN {[level |-> l, s |-> <<>>] : l \in {"exp", "term"}}
    ELSE {[level |-> t.level, s |-> t.s \o <<op, o>>] :
            t \in ChainTails(n - 1), op \in {"+", "-", "*"}, o \in ChainOperands}

ChainTexts ==
    {<<"x", "=", o>> \o t.s \o <<";">> :
        o \in ChainOperands,
        t \in {u \in UNION {ChainTails(n) : n \in 1..MaxChain} :
                 \A i \in 1..Len(u.s) :
                    i % 2 = 1 => (u.s[i] = "*" <=> u.level = "term")}}

\* Runs of unary signs in factor position: x=[2*|2-]s1 s2 ... sn f;
SignRuns == SeqsUpTo({"+", "-"}, MaxSigns) \ {<<>>}

SignTexts ==
    {<<"x", "=">> \o pre \o signs \o f \o <<";">> :
        pre \in {<<>>, <<"2", "*">>, <<"2", "-">>},
        signs \in SignRuns,
        f \in {<<"5">>, <<"(", "3", ")">>}}

\* Expression trees with at most MaxOps operators over the leaves a and 3,
\* written out with the parentheses the grammar's layering requires.
Leaves == {<<"var", <<"a">>>>, <<"lit", 3>>}

RECURSIVE ExprsWithOps(_)
ExprsWithOps(k) ==
    IF k = 0 THEN Leaves
    ELSE {<<s, e>> : s \in {"+", "-"}, e \in ExprsWithOps(k - 1)}
         \cup UNION {{<<o, l, r>> : o \in {"+", "-", "*"},
                                    l \in ExprsWithOps(i),
                                    r \in ExprsWithOps(k - 1 - i)} : i \in 0..(k - 1)}

Level(e) ==
    IF Len(e) = 3 THEN (IF e[1] = "*" THEN 2 ELSE 1) ELSE 3

RECURSIVE Unparse(_, _)
Unparse(e, min) ==
    LET body ==
            IF e[1] = "lit" THEN IntToStr(e[2])
            ELSE IF e[1] = "var" THEN e[2]
            ELSE IF Len(e) = 2 THEN <<e[1]>> \o Unparse(e[2], 3)
            ELSE IF e[1] = "*" THEN Unparse(e[2], 2) \o <<"*">> \o Unparse(e[3], 3)
            ELSE Unparse(e[2], 1) \o <<e[1]>> \o Unparse(e[3], 2)
    IN  IF Level(e) < min THEN <<"(">> \o body \o <<")">> ELSE body

ExprTexts ==
    {<<"a", "=", "2", ";", "z", "=">> \o Unparse(e, 1) \o <<";">> :
        e \in UNION {ExprsWithOps(k) : k \in 0..MaxOps}}

\* Programs of at most MaxStmts statements that bind, rebind and read names.
Statements ==
    { <<"a", "=", "1", ";">>,
      <<"b", "=", "2", ";">>,
      <<"a", "=", "b", ";">>,
      <<"b", "=", "a", "+", "1", ";">>,
      <<"B", "=", "-", "a", ";">>,
      <<"a", "1", "=", "a", "*", "a", "1", ";">>,
      <<"_", "=", "1", "2", ";">> }

RECURSIVE StmtSeqs(_)
StmtSeqs(n) ==
    IF n = 0 THEN {<<>>}
    ELSE LET shorter == StmtSeqs(n - 1)
         IN  shorter \cup {t \o st : t \in shorter, st \in Statements}

StmtTexts == StmtSeqs(MaxStmts)

\* The programs the specification's examples name.
ExLeftAssoc == <<"x", " ", "=", " ", "5", " ", "-", " ", "2", " ", "-", " ", "1", ";">>
ExPrecedence == <<"x", " ", "=", " ", "2", " ", "+", " ", "3", " ", "*", " ", "4", ";">>
ExDoubleMinus == <<"x", " ", "=", " ", "-", "-", "5", ";">>
ExTripleMinus == <<"x", " ", "=", " ", "-", "-", "-", "5", ";">>
ExParens == <<"x", " ", "=", " ", "(", "2", " ", "+", " ", "3", ")", " ", "*", " ", "4", ";">>
ExUnbound == <<"y", " ", "=", " ", "x", ";">>
ExSelfRef == <<"x", " ", "=", " ", "x", ";">>
ExOrder == <<"b", " ", "=", " ", "1", ";", " ", "a", " ", "=", " ", "2", ";">>
ExLeadingZero == <<"x", " ", "=", " ", "0", "1", ";">>
ExZero == <<"x", " ", "=", " ", "0", ";">>
ExMultiDigit == <<"x", " ", "=", " ", "1", "0", " ", "*", " ", "1", "2", ";">>
ExEndToEnd == <<"x", " ", "=", " ", "1", ";", "\n", "y", " ", "=", " ", "2", ";", "\n", "z", " ", "=", " ", "-", "-", "-", "(", "x", "+", "y", ")", "*", "(", "x", "+", "-", "y", ")", ";">>

Examples == {ExLeftAssoc, ExPrecedence, ExDoubleMinus, ExTripleMinus, ExParens, ExUnbound, ExSelfRef, ExOrder, ExLeadingZero, ExZero, ExMultiDigit, ExEndToEnd}

Programs == ShortTexts \cup ChainTexts \cup SignTexts \cup ExprTexts \cup StmtTexts \cup Examples

(***************************************************************************)
(* run_program                                                             *)
(***************************************************************************)
EmptyEnv == [n \in {} |-> 0]

Init ==
    /\ text \in Programs
    /\ pos = 0
    /\ tokens = <<>>
    /\ ppos = 0
    /\ assignments = <<>>
    /\ vars = EmptyEnv
    /\ runIdx = 0
    /\ keys = <<>>
    /\ stdout = <<>>
    /\ pc = "lex"
    /\ err = ""

\* tokenize leaving its loop before the end-of-input token is appended.
NextTokenDropsEof ==
    /\ pc = "lex"
    /\ LET r == next_token(text, pos)
       IN  /\ pos' = r.pos
           /\ IF r.err # ""
              THEN /\ pc' = "failed"
                   /\ err' = r.err
                   /\ tokens' = tokens
              ELSE /\ tokens' = IF r.tok.ttype = "EOF" THEN tokens
                                                       ELSE Append(tokens, r.tok)
                   /\ pc' = IF r.tok.ttype = "EOF" THEN "parse" ELSE "lex"
                   /\ err' = err
    /\ UNCHANGED <<text, ppos, assignments, vars, runIdx, keys, stdout>>

\* One iteration of Lexer.tokenize's loop.
NextToken ==
    /\ pc = "lex"
    /\ LET r == next_token(text, pos)
       IN  /\ pos' = r.pos
           /\ IF r.err # ""
              THEN /\ pc' = "failed"
                   /\ err' = r.err
                   /\ tokens' = tokens
              ELSE /\ tokens' = Append(tokens, r.tok)
                   /\ pc' = IF r.tok.ttype = "EOF" THEN "parse" ELSE "lex"
                   /\ err' = err
    /\ UNCHANGED <<text, ppos, assignments, vars, runIdx, keys, stdout>>

\* One iteration of Parser.parse's loop: an assignment is parsed and appended.
ParseAssignment ==
    /\ pc = "parse"
    /\ ParsePeek(tokens, ppos) # NoToken
    /\ ParsePeek(tokens, ppos).ttype # "EOF"
    /\ LET r == assignment(tokens, ppos)
       IN  /\ ppos' = r.pos
           /\ IF r.err # ""
              THEN /\ pc' = "failed"
                   /\ err' = r.err
                   /\ assignments' = assignments
              ELSE /\ assignments' = Append(assignments, r.node)
                   /\ pc' = "parse"
                   /\ err' = err
    /\ UNCHANGED <<text, pos, tokens, vars, runIdx, keys, stdout>>

\* Parser.parse leaves its loop and returns; the Interpreter is constructed.
ParseReturn ==
    /\ pc = "parse"
    /\ \/ ParsePeek(tokens, ppos) = NoToken
       \/ ParsePeek(tokens, ppos).ttype = "EOF"
    /\ pc' = "run"
    /\ vars' = EmptyEnv
    /\ runIdx' = 0
    /\ UNCHANGED <<text, pos, tokens, ppos, assignments, keys, stdout, err>>

\* run printing each binding as soon as it is made.
RunAssignPrinting ==
    /\ pc = "run"
    /\ runIdx < Len(assignments)
    /\ LET assign == assignments[runIdx + 1]
           v == eval_exp(assign[3], vars)
       IN  IF v.err # ""
           THEN /\ pc' = "failed"
                /\ err' = v.err
                /\ UNCHANGED <<vars, runIdx, stdout>>
           ELSE /\ vars' = Bind(vars, assign[2], v.val)
                /\ runIdx' = runIdx + 1
                /\ stdout' = Append(stdout, FormatLine(assign[2], v.val))
                /\ UNCHANGED <<pc, err>>
    /\ UNCHANGED <<text, pos, tokens, ppos, assignments, keys>>

\* One iteration of Interpreter.run's first loop.
RunAssign ==
    /\ pc = "run"
    /\ runIdx < Len(assignments)
    /\ LET assign == assignments[runIdx + 1]
           v == eval_exp(assign[3], vars)
       IN  IF v.err # ""
           THEN /\ pc' = "failed"
                /\ err' = v.err
                /\ UNCHANGED <<vars, runIdx>>
           ELSE /\ vars' = Bind(vars, assign[2], v.val)
                /\ runIdx' = runIdx + 1
                /\ UNCHANGED <<pc, err>>
    /\ UNCHANGED <<text, pos, tokens, ppos, assignments, keys, stdout>>

\* The first loop is over: sorted(self.vars.keys()) is computed for the second.
RunSort ==
    /\ pc = "run"
    /\ runIdx = Len(assignments)
    /\ keys' = sorted(DOMAIN vars)
    /\ pc' = IF DOMAIN vars = {} THEN "done" ELSE "print"
    /\ UNCHANGED <<text, pos, tokens, ppos, assignments, vars, runIdx, stdout, err>>

\* One iteration of Interpreter.run's second loop: the next name of the sorted
\* list is printed; keys holds the names still to print.
PrintLine ==
    /\ pc = "print"
    /\ stdout' = Append(stdout, FormatLine(Head(keys), vars[Head(keys)]))
    /\ keys' = Tail(keys)
    /\ pc' = IF keys' = <<>> THEN "done" ELSE "print"
    /\ UNCHANGED <<text, pos, tokens, ppos, assignments, vars, runIdx, err>>

Next == NextToken \/ ParseAssignment \/ ParseReturn \/ RunAssign \/ RunSort \/ PrintLine

Spec == Init /\ [][Next]_allvars

\* tokenize's loop is never suspended: while it is scanning, its next
\* iteration runs.
FairSpec == Spec /\ WF_allvars(NextToken)

(***************************************************************************)
(* Parser.parse on a token list of the caller's own                        *)
(***************************************************************************)
TokenAlphabet ==
    {Token("IDENTIFIER", <<"a">>), Token("LITERAL", <<"1">>),
     Token("LITERAL", <<SuperscriptTwo>>), Token("EOF", <<>>)}
    \cup {SingleToken(c) : c \in SingleChars}

ParserInit ==
    /\ tokens \in SeqsUpTo(TokenAlphabet, MaxToks)
    /\ text = <<>>
    /\ pos = 0
    /\ ppos = 0
    /\ assignments = <<>>
    /\ vars = EmptyEnv
    /\ runIdx = 0
    /\ keys = <<>>
    /\ stdout = <<>>
    /\ pc = "parse"
    /\ err = ""

\* Parser.parse leaves its loop and returns the assignments.
ParseBreak ==
    /\ pc = "parse"
    /\ \/ ParsePeek(tokens, ppos) = NoToken
       \/ ParsePeek(tokens, ppos).ttype = "EOF"
    /\ pc' = "parsed"
    /\ UNCHANGED <<text, pos, tokens, ppos, assignments, vars, runIdx, keys, stdout, err>>

ParserNext == ParseAssignment \/ ParseBreak

ParserSpec == ParserInit /\ [][ParserNext]_allvars
(***************************************************************************)
(* Properties of the Lexer                                                 *)
(***************************************************************************)
\* tokenize has returned: the run is past scanning and scanning did not fail.
Tokenized == pc \notin {"lex", "failed"} \/ (pc = "failed" /\ err # "Lexical error")

EndsInOneEof(toks) ==
    /\ Len(toks) >= 1
    /\ toks[Len(toks)].ttype = "EOF"
    /\ \A i \in 1..(Len(toks) - 1) : toks[i].ttype # "EOF"

C1_Shape ==
    /\ pos <= Len(text)
    /\ Tokenized => EndsInOneEof(tokens)
    /\ ~Tokenized => \A i \in 1..Len(tokens) : tokens[i].ttype # "EOF"
    /\ (pc = "failed" /\ ~EndsInOneEof(tokens)) => err = "Lexical error"

C1_Step ==
    pc = "lex" =>
        \/ pos' > pos /\ pos' <= Len(text)
        \/ pc' = "failed" /\ err' = "Lexical error"
        \/ pc' = "parse" /\ tokens' = Append(tokens, Token("EOF", <<>>))

\* C1: tokenize terminates on every text: each call of next_token moves the
\* cursor forward by at least one character (never past the end), returns the
\* end-of-input token, or fails with a lexical error, and scanning is
\* eventually over; the sequence it returns ends with exactly one
\* end-of-input token and holds none earlier.
C1_TokenizeTerminates ==
    /\ []C1_Shape
    /\ [][C1_Step]_allvars
    /\ <>(pc # "lex")

C1_Witness ==
    /\ text = ExEndToEnd
    /\ pc = "done"
    /\ EndsInOneEof(tokens)
    /\ Len(tokens) = 27

\* The cursor next_token classifies from: past the whitespace at the cursor.
FirstNonSpace(t, p) ==
    CHOOSE s \in p..Len(t) :
        /\ \A j \in (p + 1)..s : t[j] \in SpaceChars
        /\ s < Len(t) => t[s + 1] \notin SpaceChars

\* The end of the maximal run of digits that starts at cursor s.
DigitRunEnd(t, s) ==
    CHOOSE e \in (s + 1)..Len(t) :
        /\ \A j \in (s + 1)..e : t[j] \in DigitChars
        /\ e < Len(t) => t[e + 1] \notin DigitChars

NoLeadingZero(value) ==
    /\ Len(value) >= 1
    /\ \A j \in 1..Len(value) : value[j] \in DigitChars
    /\ value[1] = "0" => value = <<"0">>

C9_Step ==
    LET s == FirstNonSpace(text, pos)
    IN  (pc = "lex" /\ s < Len(text) /\ text[s + 1] \in DigitChars) =>
            IF text[s + 1] # "0"
            THEN /\ pos' = DigitRunEnd(text, s)
                 /\ tokens' = Append(tokens, Token("LITERAL", SubSeq(text, s + 1, pos')))
                 /\ pc' = "lex"
            ELSE IF s + 1 < Len(text) /\ text[s + 2] \in DigitChars
            THEN /\ pc' = "failed"
                 /\ err' = "Lexical error"
                 /\ tokens' = tokens
            ELSE /\ pos' = s + 1
                 /\ tokens' = Append(tokens, Token("LITERAL", <<"0">>))
                 /\ pc' = "lex"

Punctuation == SingleChars

\* C10 as stated: punctuation and end-of-input tokens carry an empty text.
C10_PunctuationTextEmpty ==
    \A i \in 1..Len(tokens) :
        tokens[i].ttype \in Punctuation \cup {"EOF"} => tokens[i].value = <<>>

RECURSIVE Flatten(_)
Flatten(toks) ==
    IF toks = <<>> THEN <<>> ELSE Head(toks).value \o Flatten(Tail(toks))

NonSpace(t) == SelectSeq(t, LAMBDA c : c \notin SpaceChars)

IsName(value) ==
    /\ Len(value) >= 1
    /\ value[1] \in LetterChars \cup {"_"}
    /\ \A j \in 1..Len(value) : value[j] \in LetterChars \cup DigitChars \cup {"_"}

\* C10 (amended): a token's text is the identifier's name, the literal's
\* digits, the punctuation character itself for a punctuation token, and
\* empty only for the end-of-input token; together the texts are the scanned
\* part of the input without its whitespace.
C10_TokenText ==
    /\ \A i \in 1..Len(tokens) :
        LET tok == tokens[i]
        IN  /\ tok.ttype \in Punctuation \cup {"EOF", "IDENTIFIER", "LITERAL"}
            /\ tok.ttype \in Punctuation => tok.value = <<tok.ttype>>
            /\ tok.ttype = "EOF" => tok.value = <<>>
            /\ tok.ttype = "IDENTIFIER" => IsName(tok.value)
            /\ tok.ttype = "LITERAL" =>
                    (tok.value # <<>> /\ \A j \in 1..Len(tok.value) : tok.value[j] \in DigitChars)
    /\ ~(pc = "failed" /\ err = "Lexical error") =>
            Flatten(tokens) = NonSpace(SubSeq(text, 1, pos))

C10_Witness ==
    /\ text = ExEndToEnd
    /\ pc = "parse"
    /\ tokens[1] = Token("IDENTIFIER", <<"x">>)
    /\ tokens[2] = Token("=", <<"=">>)
    /\ tokens[3] = Token("LITERAL", <<"1">>)
    /\ tokens[4] = Token(";", <<";">>)
    /\ tokens[27] = Token("EOF", <<>>)
TargetsUpTo(k) == {assignments[j][2] : j \in 1..k}

\* The last of the first k assignments that binds name n.
LastAssign(n, k) ==
    CHOOSE j \in 1..k :
        /\ assignments[j][2] = n
        /\ \A i \in (j + 1)..k : assignments[i][2] # n

\* The environment the first k assignments leave: each bound name with the
\* value of the last assignment to it, evaluated where it stands.
RECURSIVE EnvAfter(_)
EnvAfter(k) ==
    [n \in TargetsUpTo(k) |->
        LET j == LastAssign(n, k)
        IN  eval_exp(assignments[j][3], EnvAfter(j - 1)).val]

\* C3: when every assignment has run without error, the report is one line
\* name = value per distinct assigned name, with the value of the last
\* assignment to that name, in strictly ascending code-point order of the
\* names whatever the order of assignment.
C3_SortedFinalReport ==
    /\ pc = "done" =>
        LET names == TargetsUpTo(Len(assignments))
            final == EnvAfter(Len(assignments))
        IN  /\ Len(stdout) = Cardinality(names)
            /\ \A i \in 1..Len(stdout) :
                 \E n \in names :
                    /\ Cardinality({m \in names : StrLess(m, n)}) = i - 1
                    /\ stdout[i] = n \o <<" ", "=", " ">> \o IntToStr(final[n])
    /\ (pc = "done" /\ text = ExOrder) =>
            stdout = << <<"a", " ", "=", " ", "2">>, <<"b", " ", "=", " ", "1">> >>
    /\ (pc = "done" /\ text = ExMultiDigit) =>
            stdout = << <<"x", " ", "=", " ", "1", "2", "0">> >>
    /\ text \in {ExOrder, ExMultiDigit} => pc # "failed"

C3_Witness ==
    /\ pc = "done"
    /\ Len(assignments) = 3
    /\ assignments[1][2] = <<"b">>
    /\ assignments[2][2] = <<"a">>
    /\ assignments[3][2] = <<"b">>
    /\ Len(stdout) = 2

\* The names an expression reads.
RECURSIVE FreeVars(_)
FreeVars(node) ==
    IF node[1] = "lit" THEN {}
    ELSE IF node[1] = "var" THEN {node[2]}
    ELSE IF Len(node) = 2 THEN FreeVars(node[2])
    ELSE FreeVars(node[2]) \cup FreeVars(node[3])

\* The integer an expression denotes in an environment that binds every name
\* it reads.
RECURSIVE Denote(_, _)
Denote(node, env) ==
    IF node[1] = "lit" THEN node[2]
    ELSE IF node[1] = "var" THEN env[node[2]]
    ELSE IF Len(node) = 2
         THEN (IF node[1] = "-" THEN 0 - Denote(node[2], env) ELSE Denote(node[2], env))
    ELSE IF node[1] = "+" THEN Denote(node[2], env) + Denote(node[3], env)
    ELSE IF node[1] = "-" THEN Denote(node[2], env) - Denote(node[3], env)
    ELSE Denote(node[2], env) * Denote(node[3], env)

C4_Step ==
    (pc = "run" /\ runIdx < Len(assignments)) =>
        LET a == assignments[runIdx + 1]
        IN  IF FreeVars(a[3]) \subseteq DOMAIN vars
            THEN /\ pc' = "run"
                 /\ runIdx' = runIdx + 1
                 /\ vars' = [n \in DOMAIN vars \cup {a[2]} |->
                                IF n = a[2] THEN Denote(a[3], vars) ELSE vars[n]]
            ELSE /\ pc' = "failed"
                 /\ err' = "Uninitialized variable"
                 /\ vars' = vars

\* C4: statement k's right-hand side is evaluated against the environment
\* that holds exactly the bindings of statements 1..k-1, before its own
\* target is bound or overwritten; a name without a binding there, the
\* statement's own never-assigned target included, fails with an
\* uninitialized-variable error and gets no default value.
C4_EvaluatedBeforeBinding ==
    /\ [](pc = "run" => DOMAIN vars = TargetsUpTo(runIdx))
    /\ [][C4_Step]_allvars
    /\ [](text \in {ExSelfRef, ExUnbound} => pc # "done")

C4_Witness ==
    /\ text = ExSelfRef
    /\ pc = "failed"
    /\ err = "Uninitialized variable"
    /\ vars = EmptyEnv

(***************************************************************************)
(* Properties of the Parser                                                *)
(***************************************************************************)
Parsed == pc \in {"run", "print", "done"}

\* The text is x=o1 op1 o2 ... opn on+1; with one-digit operands and
\* operators of one grammar level.
IsChain(t) ==
    /\ Len(t) >= 6
    /\ Len(t) % 2 = 0
    /\ t[1] = "x" /\ t[2] = "=" /\ t[Len(t)] = ";"
    /\ \A i \in 3..(Len(t) - 1) : i % 2 = 1 => t[i] \in AsciiDigits
    /\ \/ \A i \in 3..(Len(t) - 1) : i % 2 = 0 => t[i] \in {"+", "-"}
       \/ \A i \in 3..(Len(t) - 1) : i % 2 = 0 => t[i] = "*"

ChainOps(t) == (Len(t) - 4) \div 2

\* The tree of the first n operators of a chain, folded from the left.
RECURSIVE LeftTree(_, _)
LeftTree(t, n) ==
    IF n = 0 THEN <<"lit", DigitVal(t[3])>>
    ELSE <<t[2 * n + 2], LeftTree(t, n - 1), <<"lit", DigitVal(t[2 * n + 3])>> >>

Apply(op, l, r) ==
    IF op = "+" THEN l + r ELSE IF op = "-" THEN l - r ELSE l * r

\* The value of the first n operators of a chain, applied from the left.
RECURSIVE LeftValue(_, _)
LeftValue(t, n) ==
    IF n = 0 THEN DigitVal(t[3])
    ELSE Apply(t[2 * n + 2], LeftValue(t, n - 1), DigitVal(t[2 * n + 3]))

\* C5: a chain of operands joined by operators of one grammar level parses
\* to the left-folded tree and evaluates to its value; x = 5 - 2 - 1; gives
\* x = 2.
C5_LeftAssociative ==
    /\ IsChain(text) =>
        /\ pc # "failed"
        /\ Parsed => assignments = << <<"assign", <<"x">>, LeftTree(text, ChainOps(text))>> >>
        /\ pc = "done" => vars[<<"x">>] = LeftValue(text, ChainOps(text))
    /\ text = ExLeftAssoc =>
        /\ pc # "failed"
        /\ pc = "done" => vars[<<"x">>] = 2

C5_Witness ==
    /\ text = <<"x", "=", "5", "-", "2", "-", "1", ";">>
    /\ pc = "done"
    /\ vars[<<"x">>] = 2

\* Reference semantics of a token sequence that is an expression: split at
\* the last binary + or - outside parentheses, else at the last * outside
\* parentheses, else strip a sign, else strip the parentheses.
Depth(ts, i) ==
    Cardinality({j \in 1..(i - 1) : ts[j].ttype = "("})
        - Cardinality({j \in 1..(i - 1) : ts[j].ttype = ")"})

EndsOperand(tok) == tok.ttype \in {"LITERAL", "IDENTIFIER", ")"}

AddPositions(ts) ==
    {i \in 2..Len(ts) :
        ts[i].ttype \in {"+", "-"} /\ Depth(ts, i) = 0 /\ EndsOperand(ts[i - 1])}

MulPositions(ts) ==
    {i \in 2..Len(ts) : ts[i].ttype = "*" /\ Depth(ts, i) = 0}

Max(S) == CHOOSE m \in S : \A n \in S : n <= m

RECURSIVE RefValue(_, _)
RefValue(ts, env) ==
    IF AddPositions(ts) # {}
    THEN LET k == Max(AddPositions(ts))
         IN  Apply(ts[k].ttype, RefValue(SubSeq(ts, 1, k - 1), env),
                   RefValue(SubSeq(ts, k + 1, Len(ts)), env))
    ELSE IF MulPositions(ts) # {}
    THEN LET k == Max(MulPositions(ts))
         IN  RefValue(SubSeq(ts, 1, k - 1), env) * RefValue(SubSeq(ts, k + 1, Len(ts)), env)
    ELSE IF ts[1].ttype = "-" THEN 0 - RefValue(Tail(ts), env)
    ELSE IF ts[1].ttype = "+" THEN RefValue(Tail(ts), env)
    ELSE IF ts[1].ttype = "(" THEN RefValue(SubSeq(ts, 2, Len(ts) - 1), env)
    ELSE IF ts[1].ttype = "LITERAL" THEN StrToInt(ts[1].value)
    ELSE env[ts[1].value]

\* Reference semantics of a token sequence that is a program: the statements
\* run in order, each name = expression ; binding the name.
RECURSIVE RefRun(_, _)
RefRun(ts, env) ==
    IF ts[1].ttype = "EOF" THEN env
    ELSE LET semi == CHOOSE i \in 1..Len(ts) :
                        ts[i].ttype = ";" /\ \A j \in 1..(i - 1) : ts[j].ttype # ";"
             v == RefValue(SubSeq(ts, 3, semi - 1), env)
         IN  RefRun(SubSeq(ts, semi + 1, Len(ts)),
                    [n \in DOMAIN env \cup {ts[1].value} |->
                        IF n = ts[1].value THEN v ELSE env[n]])

\* The text is one of the generated expression programs a=2;z=...;
IsExprText(t) ==
    /\ Len(t) >= 8
    /\ SubSeq(t, 1, 6) = <<"a", "=", "2", ";", "z", "=">>

\* C6: unary sign binds tightest, then *, then + and -, and parentheses
\* override: every program that runs to its end leaves the values its
\* expressions have under that precedence; 2 + 3 * 4 gives 14, (2 + 3) * 4
\* gives 20 and, with x = 1 and y = 2, ---(x+y)*(x+-y) gives 3.
C6_Precedence ==
    /\ pc = "done" => vars = RefRun(tokens, EmptyEnv)
    /\ (IsExprText(text) \/ text \in {ExPrecedence, ExParens, ExEndToEnd}) => pc # "failed"
    /\ (pc = "done" /\ text = ExPrecedence) => vars[<<"x">>] = 14
    /\ (pc = "done" /\ text = ExParens) => vars[<<"x">>] = 20
    /\ (pc = "done" /\ text = ExEndToEnd) =>
            vars[<<"x">>] = 1 /\ vars[<<"y">>] = 2 /\ vars[<<"z">>] = 3

C6_Witness ==
    /\ text = ExEndToEnd
    /\ pc = "done"
    /\ vars[<<"z">>] = 3
    /\ stdout[3] = <<"z", " ", "=", " ", "3">>

\* The text is x=[2*|2-]s1...sn f; with n >= 1 signs and f one of 5 and (3).
SignPrefix(t) ==
    IF Len(t) >= 4 /\ t[3] = "2" /\ t[4] \in {"*", "-"} THEN 2 ELSE 0

SignCount(t) ==
    LET from == 3 + SignPrefix(t)
    IN  Cardinality({i \in from..Len(t) : \A j \in from..i : t[j] \in {"+", "-"}})

IsSignText(t) ==
    /\ Len(t) >= 5
    /\ t[1] = "x" /\ t[2] = "="
    /\ SignCount(t) >= 1
    /\ SubSeq(t, 3 + SignPrefix(t) + SignCount(t), Len(t))
            \in {<<"5", ";">>, <<"(", "3", ")", ";">>}

SignOperand(t) == IF t[Len(t) - 1] = "5" THEN 5 ELSE 3

\* The signs from the i-th on, nested around the operand, outermost first.
RECURSIVE SignTree(_, _)
SignTree(t, i) ==
    IF i > SignCount(t) THEN <<"lit", SignOperand(t)>>
    ELSE <<t[2 + SignPrefix(t) + i], SignTree(t, i + 1)>>

Minuses(t) ==
    LET from == 3 + SignPrefix(t)
    IN  Cardinality({i \in from..(from + SignCount(t) - 1) : t[i] = "-"})

SignValue(t) == IF Minuses(t) % 2 = 1 THEN 0 - SignOperand(t) ELSE SignOperand(t)

\* C7: n consecutive signs before a factor f parse to n nested unary nodes
\* around f, the leftmost sign outermost, and evaluate to f negated once per
\* minus; --5 gives 5 and ---5 gives -5.
C7_UnarySignsStack ==
    /\ IsSignText(text) =>
        /\ pc # "failed"
        /\ Parsed =>
             assignments = << <<"assign", <<"x">>,
                                IF SignPrefix(text) = 0 THEN SignTree(text, 1)
                                ELSE <<text[4], <<"lit", 2>>, SignTree(text, 1)>> >> >>
        /\ pc = "done" =>
             vars[<<"x">>] = IF SignPrefix(text) = 0 THEN SignValue(text)
                             ELSE Apply(text[4], 2, SignValue(text))
    /\ text \in {ExDoubleMinus, ExTripleMinus} => pc # "failed"
    /\ (pc = "done" /\ text = ExDoubleMinus) => vars[<<"x">>] = 5
    /\ (pc = "done" /\ text = ExTripleMinus) => vars[<<"x">>] = 0 - 5

C7_Witness ==
    /\ text = <<"x", "=", "-", "-", "-", "5", ";">>
    /\ pc = "done"
    /\ assignments[1][3] = <<"-", <<"-", <<"-", <<"lit", 5>> >> >> >>
    /\ vars[<<"x">>] = 0 - 5

\* C8 as stated: whatever the token sequence, parse returns or fails with a
\* syntax error, and in no other way.
C8_ParseFailsOnlyWithSyntaxError ==
    pc = "failed" => err = "Syntax error"
====
